---- MODULE Spec2Model ----
(***************************************************************************)
(* Model of unstructured/ingest/connector/fsspec.py: the address parser    *)
(* (SimpleFsspecConfig.__post_init__), the corpus lister (FsspecConnector) *)
(* and the per-document fetch / classify / expand lifecycle                *)
(* (FsspecIngestDoc).                                                      *)
(*                                                                         *)
(* Strings are sequences of one-character strings, so that split, replace  *)
(* and the three regular expressions are computed character by character.  *)
(***************************************************************************)
EXTENDS Naturals, Sequences, FiniteSets, TLC

VARIABLES
    path,          \* SimpleFsspecConfig.path, the location string
    recursive,     \* SimpleFsspecConfig.recursive
    uncompress,    \* SimpleFsspecConfig.uncompress
    cfg,           \* the fields __post_init__ sets, and how it ended
    fsMade,        \* FsspecConnector.__init__ has constructed self.fs
    lsOut,         \* what the backend answers to fs.ls(path)
    findOut,       \* what the backend answers to fs.find(path)
    lsCalls,       \* number of fs.ls / fs.find calls made so far
    initRes,       \* how FsspecConnector.initialize ended
    runs,          \* number of get_ingest_docs calls (runs) so far
    docs,          \* the documents of the current run, in listing order
    remote,        \* the bytes behind each remote key, by what they classify as
    localFs,       \* the files under download_dir: path -> bytes, or Absent
    extracted,     \* the extraction directories that hold extracted entries
    mkdirs,        \* directories created by _create_full_tmp_dir_path
    hist,          \* per document, per get_file invocation: how it ended,
                   \* and whether it called fs.get
    submitted,     \* the call process_file / write_result handed downstream last
    locals         \* the local documents whose lifecycle has run, by local path:
                   \* their is_compressed flag and children

vars == <<path, recursive, uncompress, cfg, fsMade, lsOut, findOut, lsCalls,
          initRes, runs, docs, remote, localFs, extracted, mkdirs, hist,
          submitted, locals>>

----------------------------------------------------------------------------
(* Bounds of the model.                                                    *)

\* longest text after the protocol prefix of an input address
MaxLen == 5
\* longest backend listing the lister is run on
MaxList == 3
\* most documents of one run of the lifecycle with siblings
MaxDocs == 2
\* most documents of one run of the single-document lifecycle
MaxSolo == 1
\* most get_ingest_docs calls (runs over the same download_dir)
MaxRuns == 2
\* most get_file invocations on one document object
MaxCalls == 2
\* deepest nesting of the archive of the round trip
MaxDepth == 2

----------------------------------------------------------------------------
(* Strings.                                                                *)

\* the characters \s matches, among those the inputs are drawn from
WhiteSpace == {" ", "\n"}

\* the characters the text of an input address is drawn from
Alphabet == {"a", "/", ":", " ", "\n"}

\* the literal "://"
SEP == <<":", "/", "/">>

\* str.startswith(pre), at offset i (1-based)
MatchAt(s, i, pre) ==
    /\ i + Len(pre) - 1 <= Len(s)
    /\ \A k \in 1..Len(pre) : s[i + k - 1] = pre[k]

\* str.find(sub): the first index sub occurs at, 0 if it does not occur
Find(s, sub) ==
    IF \E i \in 1..Len(s) : MatchAt(s, i, sub)
    THEN CHOOSE i \in 1..Len(s) :
            /\ MatchAt(s, i, sub)
            /\ \A j \in 1..(i - 1) : ~MatchAt(s, j, sub)
    ELSE 0

\* str.split(sep): every non-overlapping occurrence, left to right
RECURSIVE Split(_, _)
Split(s, sep) ==
    LET i == Find(s, sep)
    IN  IF i = 0
        THEN <<s>>
        ELSE <<SubSeq(s, 1, i - 1)>> \o Split(SubSeq(s, i + Len(sep), Len(s)), sep)

\* str.replace(old, new): every non-overlapping occurrence, left to right
RECURSIVE Replace(_, _, _)
Replace(s, old, new) ==
    LET i == Find(s, old)
    IN  IF i = 0
        THEN s
        ELSE SubSeq(s, 1, i - 1) \o new
                \o Replace(SubSeq(s, i + Len(old), Len(s)), old, new)

\* length of the longest prefix of s whose characters are all outside `excl`
RECURSIVE RunLen(_, _)
RunLen(s, excl) ==
    IF s = <<>> \/ s[1] \in excl THEN 0 ELSE 1 + RunLen(Tail(s), excl)

\* length of the longest prefix of s whose characters are all `c`
RECURSIVE RunOf(_, _)
RunOf(s, c) ==
    IF s = <<>> \/ s[1] # c THEN 0 ELSE 1 + RunOf(Tail(s), c)

----------------------------------------------------------------------------
(* The address parser: SimpleFsspecConfig.__post_init__.                   *)

SUPPORTED_REMOTE_FSSPEC_PROTOCOLS ==
    { <<"s", "3">>, <<"s", "3", "a">>, <<"a", "b", "f", "s">>, <<"a", "z">>,
      <<"g", "s">>, <<"g", "c", "s">>, <<"b", "o", "x">>,
      <<"d", "r", "o", "p", "b", "o", "x">> }

DROPBOX == <<"d", "r", "o", "p", "b", "o", "x">>

\* a field __post_init__ has not assigned
Unset == <<"<unset>">>

\* re.match(rf"{protocol}://([\s])/", path): anchored at the start only.
\* The group is one whitespace character; what follows the "/" is not looked at.
MatchRootless(p, protocol) ==
    LET pre == protocol \o SEP
        n == Len(pre)
    IN  /\ MatchAt(p, 1, pre)
        /\ Len(p) >= n + 2
        /\ p[n + 1] \in WhiteSpace
        /\ p[n + 2] = "/"

\* re.match(rf"{protocol}://([^/\s]+?)(/*)$", path): group 1 is a non-empty run
\* of characters that are neither "/" nor whitespace, then only slashes up to
\* the end; Python's $ also matches just before a newline that ends the string.
\* The result is <<matched, group(1)>>.
MatchRootOnly(p, protocol) ==
    LET pre == protocol \o SEP
        rest == SubSeq(p, Len(pre) + 1, Len(p))
        g == RunLen(rest, {"/"} \cup WhiteSpace)
        after == SubSeq(rest, g + 1, Len(rest))
        s == RunOf(after, "/")
        tail == SubSeq(after, s + 1, Len(after))
    IN  IF /\ MatchAt(p, 1, pre)
           /\ g >= 1
           /\ tail \in {<<>>, <<"\n">>}
        THEN <<TRUE, SubSeq(rest, 1, g)>>
        ELSE <<FALSE, <<>>>>

\* re.match(rf"{protocol}://([^/\s]+?)/([^\s]*)", path): group 1 as above, up
\* to the first "/"; group 2 is the longest run of non-whitespace characters
\* after it. Anchored at the start only: text after group 2 is not looked at.
\* The result is <<matched, group(1), group(2)>>.
MatchDirFile(p, protocol) ==
    LET pre == protocol \o SEP
        rest == SubSeq(p, Len(pre) + 1, Len(p))
        g == RunLen(rest, {"/"} \cup WhiteSpace)
        after == SubSeq(rest, g + 2, Len(rest))
        o == RunLen(after, WhiteSpace)
    IN  IF /\ MatchAt(p, 1, pre)
           /\ g >= 1
           /\ Len(rest) >= g + 1
           /\ rest[g + 1] = "/"
        THEN <<TRUE, SubSeq(rest, 1, g), SubSeq(after, 1, o)>>
        ELSE <<FALSE, <<>>, <<>>>>

\* the protocol check of __post_init__
ProtocolSupported(protocol) == protocol \in SUPPORTED_REMOTE_FSSPEC_PROTOCOLS

\* `self.protocol, self.path_without_protocol = self.path.split("://")`:
\* the tuple unpacking raises ValueError unless split gives exactly two parts
SplitPath(p) == Split(p, SEP)

\* __post_init__ as a function of path: the fields it sets and how it ends.
\* err is "none", or the place the ValueError was raised at: "unpack" (the
\* tuple unpacking), "protocol" (unsupported protocol), "path" (no shape
\* matches).
post_init(p) ==
    LET parts == SplitPath(p)
        base == [state |-> "error", err |-> "unpack", protocol |-> Unset,
                 path_without_protocol |-> Unset, dir_path |-> Unset,
                 file_path |-> Unset]
    IN  IF Len(parts) # 2 THEN base
        ELSE
        LET split == [base EXCEPT !.protocol = parts[1],
                                  !.path_without_protocol = parts[2]]
            r2 == MatchRootOnly(p, parts[1])
            r3 == MatchDirFile(p, parts[1])
        IN  IF ~ProtocolSupported(parts[1])
            THEN [split EXCEPT !.err = "protocol"]
            ELSE IF MatchRootless(p, parts[1]) /\ parts[1] = DROPBOX
            THEN [split EXCEPT !.state = "ok", !.err = "none",
                               !.dir_path = <<" ">>, !.file_path = <<>>]
            ELSE IF r2[1]
            THEN [split EXCEPT !.state = "ok", !.err = "none",
                               !.dir_path = r2[2], !.file_path = <<>>]
            ELSE IF ~r3[1]
            THEN [split EXCEPT !.err = "path"]
            ELSE [split EXCEPT !.state = "ok", !.err = "none",
                               !.dir_path = r3[2], !.file_path = r3[3]]

\* the configuration before __post_init__ has run
NewConfig ==
    [state |-> "new", err |-> "none", protocol |-> Unset,
     path_without_protocol |-> Unset, dir_path |-> Unset, file_path |-> Unset]

----------------------------------------------------------------------------
(* The backend and the local file system.                                  *)

\* the address of the listing and lifecycle specifications: s3://b
S3B == <<"s", "3", ":", "/", "/", "b">>

\* the remote keys the backend may list under s3://b
Keys == { <<"b", "/", "x">>, <<"b", "/", "y">>, <<"b", "/", "b", "/", "x">> }

\* the sizes a listing reports
Sizes == {0, 1}

\* one entry of fs.ls(detail=True) / fs.find(detail=True)
Entries == [name : Keys, size : Sizes]

\* sequences over S of length n
RECURSIVE SeqsOfLen(_, _)
SeqsOfLen(S, n) ==
    IF n = 0 THEN {<<>>}
    ELSE {Append(q, e) : q \in SeqsOfLen(S, n - 1), e \in S}

\* the listings a backend may answer with: no key is listed twice
Listings ==
    {l \in UNION {SeqsOfLen(Entries, n) : n \in 0..MaxList} :
        \A i, j \in 1..Len(l) : i # j => l[i].name # l[j].name}

\* what zipfile / tarfile make of a file's bytes: "no" (is_zipfile /
\* is_tarfile is false), "ok" (recognised and extracts), "bad" (recognised,
\* and opening or extracting it raises: BadZipFile, tarfile.ReadError)
Content == [zip : {"no", "ok", "bad"}, tar : {"no", "ok", "bad"}]

\* no file at that path
Absent == [zip |-> "absent", tar |-> "absent"]

\* plain bytes
Plain == [zip |-> "no", tar |-> "no"]

\* standard_config.download_dir
DownloadDir == <<"t", "m", "p">>

\* Path(a) / b
PathJoin(a, b) ==
    IF b = <<>> THEN a
    ELSE IF b[1] = "/" THEN b
    ELSE a \o <<"/">> \o b

\* FsspecIngestDoc._tmp_download_file
TmpDownloadFile(dir_path, remote_file_path) ==
    PathJoin(DownloadDir, Replace(remote_file_path, dir_path \o <<"/">>, <<>>))

\* filename without the dir_path prefix removed: not the path get_file
\* downloads to
filenameMut(dir_path, remote_file_path) == PathJoin(DownloadDir, remote_file_path)

\* standard_config.output_dir
OutputDir == <<"o", "u", "t">>

\* FsspecIngestDoc._output_filename
output_filename(dir_path, remote_file_path) ==
    PathJoin(OutputDir,
             Replace(remote_file_path, dir_path \o <<"/">>, <<>>) \o <<".json">>)

\* FsspecIngestDoc.filename
filename(dir_path, remote_file_path) == TmpDownloadFile(dir_path, remote_file_path)

----------------------------------------------------------------------------
(* The corpus lister: FsspecConnector.                                     *)

\* _list_files keeping the zero-size entries too (size >= 0 for size > 0)
KeepSizedMut(l) == [i \in 1..Len(l) |-> l[i].name]

\* the list comprehension of _list_files: the names of the entries kept
RECURSIVE KeepSized(_)
KeepSized(l) ==
    IF l = <<>> THEN <<>>
    ELSE IF l[1].size > 0
         THEN <<l[1].name>> \o KeepSized(Tail(l))
         ELSE KeepSized(Tail(l))

\* FsspecConnector._list_files: fs.ls when not recursive, fs.find otherwise
list_files(rec, ls, find) == IF ~rec THEN KeepSized(ls) ELSE KeepSized(find)

\* a new FsspecIngestDoc: is_compressed and children at their defaults
NewDoc(file) == [remote_file_path |-> file, is_compressed |-> FALSE, children |-> <<>>]

\* FsspecConnector.get_ingest_docs: one document per listed file
get_ingest_docs(rec, ls, find) ==
    LET files == list_files(rec, ls, find)
    IN  [i \in 1..Len(files) |-> NewDoc(files[i])]

\* the check of initialize made on the entries _list_files would keep: not
\* the check the code makes
InitializeFailsMut(ls_output) == Len(KeepSized(ls_output)) < 1

\* the check of FsspecConnector.initialize on fs.ls' answer
InitializeFails(ls_output) == Len(ls_output) < 1

\* SimpleFsspecConfig(path=...): the dataclass runs __post_init__
PostInit ==
    /\ cfg.state = "new"
    /\ cfg' = post_init(path)
    /\ UNCHANGED <<locals, path, recursive, uncompress, fsMade, lsOut, findOut, lsCalls,
                   initRes, runs, docs, remote, localFs, extracted, mkdirs, hist,
                   submitted>>

\* FsspecConnector.__init__: needs a constructed config, builds self.fs
ConnectorInit ==
    /\ cfg.state = "ok"
    /\ ~fsMade
    /\ fsMade' = TRUE
    /\ UNCHANGED <<locals, path, recursive, uncompress, cfg, lsOut, findOut, lsCalls,
                   initRes, runs, docs, remote, localFs, extracted, mkdirs, hist,
                   submitted>>

\* FsspecConnector.initialize: one shallow fs.ls, ValueError if it is empty
Initialize ==
    /\ fsMade
    /\ initRes = "none"
    /\ lsCalls' = lsCalls + 1
    /\ initRes' = IF InitializeFails(lsOut) THEN "error" ELSE "ok"
    /\ UNCHANGED <<locals, path, recursive, uncompress, cfg, fsMade, lsOut, findOut,
                   runs, docs, remote, localFs, extracted, mkdirs, hist,
                   submitted>>

\* FsspecConnector.get_ingest_docs, called once per run after initialize
\* returned: fresh document objects (those of an earlier run, local ones
\* included, are gone), the local files of earlier runs stay
GetIngestDocs ==
    /\ fsMade
    /\ initRes = "ok"
    /\ runs < MaxRuns
    /\ runs' = runs + 1
    /\ lsCalls' = lsCalls + 1
    /\ docs' = get_ingest_docs(recursive, lsOut, findOut)
    /\ hist' = [i \in DOMAIN docs' |-> <<>>]
    /\ locals' = <<>>
    /\ UNCHANGED <<path, recursive, uncompress, cfg, fsMade, lsOut, findOut,
                   initRes, remote, localFs, extracted, mkdirs, submitted>>

----------------------------------------------------------------------------
(* The document lifecycle: FsspecIngestDoc.                                *)

\* the file at path p, Absent if there is none
FileAt(fsys, p) == IF p \in DOMAIN fsys THEN fsys[p] ELSE Absent

\* index of the last "/" of p, 0 if it has none
LastSlash(p) ==
    IF \E i \in 1..Len(p) : p[i] = "/"
    THEN CHOOSE i \in 1..Len(p) :
            p[i] = "/" /\ \A j \in (i + 1)..Len(p) : p[j] # "/"
    ELSE 0

\* Path.parent
Parent(p) == SubSeq(p, 1, LastSlash(p) - 1)

\* BaseIngestDoc.skip_if_file_exists: the decorated get_file is not run when
\* the file at self.filename exists
SkipIfFileExists(fsys, fname) == FileAt(fsys, fname) # Absent

\* the entries an archive holds when its bytes do not say: one plain file
ArchiveEntries == <<"c">>

\* the entries extractall writes for the archive bytes b: bytes with a
\* `holds` field list their entries (name and bytes), in archive order
Members(b) ==
    IF "holds" \in DOMAIN b
    THEN b.holds
    ELSE [e \in 1..Len(ArchiveEntries) |->
            [name |-> ArchiveEntries[e], bytes |-> Plain]]

\* the names of the entries of the archive bytes b
EntryNames(b) == [e \in 1..Len(Members(b)) |-> Members(b)[e].name]

\* LocalConnector(input_path=dir, recursive=True).get_ingest_docs(): one
\* local document per file under dir
LocalIngestDocs(dir, entries) ==
    [e \in 1..Len(entries) |-> [local_path |-> dir \o <<"/", entries[e]>>]]

\* the extraction directory of process_zip / process_tar:
\* os.path.join(head, f"{tail}-zip-uncompressed"), "-tar-uncompressed"
ExtractDir(archive_path, kind) ==
    archive_path \o <<IF kind = "zip" THEN "-zip-uncompressed" ELSE "-tar-uncompressed">>

\* process_zip extracting the archive without adding the local documents
\* to children: not what the code does
process_zipMut(doc, zip_path, b, dirs) ==
    IF b.zip = "bad"
    THEN [raised |-> TRUE, doc |-> doc, dirs |-> dirs]
    ELSE [raised |-> FALSE, doc |-> doc,
          dirs |-> dirs \cup {ExtractDir(zip_path, "zip")}]

\* FsspecIngestDoc.process_zip on bytes b at zip_path: extraction errors are
\* not caught. The result is the document, the extraction directories and
\* whether the call raised.
process_zip(doc, zip_path, b, dirs) ==
    IF b.zip = "bad"
    THEN [raised |-> TRUE, doc |-> doc, dirs |-> dirs]
    ELSE [raised |-> FALSE,
          doc |-> [doc EXCEPT !.children =
                      @ \o LocalIngestDocs(ExtractDir(zip_path, "zip"), EntryNames(b))],
          dirs |-> dirs \cup {ExtractDir(zip_path, "zip")}]

\* FsspecIngestDoc.process_tar on bytes b at tar_path: tarfile.ReadError is
\* caught and logged, and the call returns without children.
process_tar(doc, tar_path, b, dirs) ==
    IF b.tar = "bad"
    THEN [raised |-> FALSE, doc |-> doc, dirs |-> dirs]
    ELSE [raised |-> FALSE,
          doc |-> [doc EXCEPT !.children =
                      @ \o LocalIngestDocs(ExtractDir(tar_path, "tar"), EntryNames(b))],
          dirs |-> dirs \cup {ExtractDir(tar_path, "tar")}]

\* zipfile.is_zipfile / tarfile.is_tarfile on the bytes of a local file
is_zipfile(b) == b.zip \in {"ok", "bad"}
is_tarfile(b) == b.tar \in {"ok", "bad"}

\* the body of get_file expanding every archive, config.uncompress not
\* read: not what the code does
ClassifyMut(doc, lpath, unc, fsys, dirs) ==
    LET b == FileAt(fsys, lpath)
        d1 == IF is_zipfile(b) THEN [doc EXCEPT !.is_compressed = TRUE] ELSE doc
        z == IF is_zipfile(b)
             THEN process_zip(d1, lpath, b, dirs)
             ELSE [raised |-> FALSE, doc |-> d1, dirs |-> dirs]
        d2 == IF is_tarfile(b) THEN [z.doc EXCEPT !.is_compressed = TRUE] ELSE z.doc
        t == IF is_tarfile(b)
             THEN process_tar(d2, lpath, b, z.dirs)
             ELSE [raised |-> FALSE, doc |-> d2, dirs |-> z.dirs]
    IN  IF z.raised
        THEN [outcome |-> "zip_error", doc |-> z.doc, dirs |-> z.dirs]
        ELSE [outcome |-> "ok", doc |-> t.doc, dirs |-> t.dirs]

\* the body of get_file after fs.get has written the file: the two
\* independent `if`s on the downloaded bytes
Classify(doc, lpath, unc, fsys, dirs) ==
    LET b == FileAt(fsys, lpath)
        d1 == IF is_zipfile(b) THEN [doc EXCEPT !.is_compressed = TRUE] ELSE doc
        z == IF is_zipfile(b) /\ unc
             THEN process_zip(d1, lpath, b, dirs)
             ELSE [raised |-> FALSE, doc |-> d1, dirs |-> dirs]
        d2 == IF is_tarfile(b) THEN [z.doc EXCEPT !.is_compressed = TRUE] ELSE z.doc
        t == IF is_tarfile(b) /\ unc
             THEN process_tar(d2, lpath, b, z.dirs)
             ELSE [raised |-> FALSE, doc |-> d2, dirs |-> z.dirs]
    IN  IF z.raised
        THEN [outcome |-> "zip_error", doc |-> z.doc, dirs |-> z.dirs]
        ELSE [outcome |-> "ok", doc |-> t.doc, dirs |-> t.dirs]

\* get_file without its decorator: the body runs although the file exists.
\* Not what the code does.
get_fileMut(doc, dir_path, unc, fsys, dirs, made, rem, backendOk) ==
    LET lpath == TmpDownloadFile(dir_path, doc.remote_file_path)
        made1 == made \cup {Parent(lpath)}
        fetched == (lpath :> rem[doc.remote_file_path]) @@ fsys
        c == Classify(doc, lpath, unc, fetched, dirs)
        skip == SkipIfFileExists(fsys, filename(dir_path, doc.remote_file_path))
    IN  IF ~backendOk
        THEN [outcome |-> IF skip THEN "skipped" ELSE "fetch_error", doc |-> doc,
              localFs |-> fsys, dirs |-> dirs, mkdirs |-> made1, fsget |-> TRUE]
        ELSE [outcome |-> IF skip THEN "skipped" ELSE c.outcome, doc |-> c.doc,
              localFs |-> fetched, dirs |-> c.dirs, mkdirs |-> made1,
              fsget |-> TRUE]

\* get_file removing the downloaded file when process_zip raises: not what
\* the code does
get_fileCleanMut(doc, dir_path, unc, fsys, dirs, made, rem, backendOk) ==
    LET lpath == TmpDownloadFile(dir_path, doc.remote_file_path)
        made1 == made \cup {Parent(lpath)}
        fetched == (lpath :> rem[doc.remote_file_path]) @@ fsys
        c == Classify(doc, lpath, unc, fetched, dirs)
    IN  IF SkipIfFileExists(fsys, filename(dir_path, doc.remote_file_path))
        THEN [outcome |-> "skipped", doc |-> doc, localFs |-> fsys,
              dirs |-> dirs, mkdirs |-> made, fsget |-> FALSE]
        ELSE IF ~backendOk
        THEN [outcome |-> "fetch_error", doc |-> doc, localFs |-> fsys,
              dirs |-> dirs, mkdirs |-> made1, fsget |-> TRUE]
        ELSE [outcome |-> c.outcome, doc |-> c.doc,
              localFs |-> IF c.outcome = "zip_error" THEN fsys ELSE fetched,
              dirs |-> c.dirs, mkdirs |-> made1, fsget |-> TRUE]

\* FsspecIngestDoc.get_file with its decorator. backendOk is whether fs.get
\* succeeds; a failing fs.get raises and leaves no file. The result is how
\* the call ended and the state it leaves.
get_file(doc, dir_path, unc, fsys, dirs, made, rem, backendOk) ==
    LET lpath == TmpDownloadFile(dir_path, doc.remote_file_path)
        made1 == made \cup {Parent(lpath)}
        fetched == (lpath :> rem[doc.remote_file_path]) @@ fsys
        c == Classify(doc, lpath, unc, fetched, dirs)
    IN  IF SkipIfFileExists(fsys, filename(dir_path, doc.remote_file_path))
        THEN [outcome |-> "skipped", doc |-> doc, localFs |-> fsys,
              dirs |-> dirs, mkdirs |-> made, fsget |-> FALSE]
        ELSE IF ~backendOk
        THEN [outcome |-> "fetch_error", doc |-> doc, localFs |-> fsys,
              dirs |-> dirs, mkdirs |-> made1, fsget |-> TRUE]
        ELSE [outcome |-> c.outcome, doc |-> c.doc, localFs |-> fetched,
              dirs |-> c.dirs, mkdirs |-> made1, fsget |-> TRUE]

\* one invocation of get_file on document i
GetFile(i) ==
    /\ i \in DOMAIN docs
    /\ Len(hist[i]) < MaxCalls
    /\ \E backendOk \in BOOLEAN :
         \E r \in {get_file(docs[i], cfg.dir_path, uncompress, localFs, extracted,
                            mkdirs, remote, backendOk)} :
             /\ docs' = [docs EXCEPT ![i] = r.doc]
             /\ localFs' = r.localFs
             /\ extracted' = r.dirs
             /\ mkdirs' = r.mkdirs
             /\ hist' = [hist EXCEPT ![i] =
                            Append(@, [outcome |-> r.outcome, fsget |-> r.fsget])]
    /\ UNCHANGED <<locals, path, recursive, uncompress, cfg, fsMade, lsOut, findOut,
                   lsCalls, initRes, runs, remote, submitted>>

\* the caller runs process_file / write_result on a document once its
\* get_file has returned normally
Fetched(i) ==
    /\ i \in DOMAIN docs
    /\ hist[i] # <<>>
    /\ hist[i][Len(hist[i])].outcome \in {"ok", "skipped"}

\* nothing has been handed downstream yet
NoCall == [op |-> "none", key |-> <<>>, bytes |-> Absent]

\* what super().process_file / super().write_result are handed: the file at
\* self.filename
Delegate(op, doc, dir_path, fsys) ==
    [op |-> op, key |-> doc.remote_file_path,
     bytes |-> FileAt(fsys, filename(dir_path, doc.remote_file_path))]

\* FsspecIngestDoc.process_file: skipped with a warning if is_compressed.
\* The result is the call handed downstream last.
process_file(doc, dir_path, fsys, last) ==
    IF doc.is_compressed THEN last
    ELSE Delegate("process_file", doc, dir_path, fsys)

\* FsspecIngestDoc.write_result: skipped with a warning if is_compressed
write_result(doc, dir_path, fsys, last) ==
    IF doc.is_compressed THEN last
    ELSE Delegate("write_result", doc, dir_path, fsys)

ProcessFile(i) ==
    /\ Fetched(i)
    /\ submitted' = process_file(docs[i], cfg.dir_path, localFs, submitted)
    /\ UNCHANGED <<locals, path, recursive, uncompress, cfg, fsMade, lsOut, findOut,
                   lsCalls, initRes, runs, docs, remote, localFs, extracted,
                   mkdirs, hist>>

WriteResult(i) ==
    /\ Fetched(i)
    /\ submitted' = write_result(docs[i], cfg.dir_path, localFs, submitted)
    /\ UNCHANGED <<locals, path, recursive, uncompress, cfg, fsMade, lsOut, findOut,
                   lsCalls, initRes, runs, docs, remote, localFs, extracted,
                   mkdirs, hist>>

\* the local paths of the children of the documents and local documents
ChildPaths ==
    UNION {{docs[i].children[c].local_path : c \in DOMAIN docs[i].children} :
              i \in DOMAIN docs}
    \cup UNION {{locals[q].children[c].local_path : c \in DOMAIN locals[q].children} :
                   q \in DOMAIN locals}

\* the bytes of the local file at p: a downloaded file, or the entry that
\* extractall wrote for the archive whose extraction directory p lies in
RECURSIVE FileUnder(_, _, _)
FileUnder(fsys, dirs, p) ==
    IF p \in DOMAIN fsys THEN fsys[p]
    ELSE IF LastSlash(p) > 2 /\ Parent(p) \in dirs
    THEN LET dir == Parent(p)
             b == FileUnder(fsys, dirs, SubSeq(dir, 1, Len(dir) - 1))
             m == {e \in 1..Len(Members(b)) : Members(b)[e].name = p[Len(p)]}
         IN  IF b # Absent /\ m # {}
             THEN Members(b)[CHOOSE e \in m : TRUE].bytes
             ELSE Absent
    ELSE Absent

\* a local document of LocalConnector before its lifecycle has run
NewLocalDoc(p) == [local_path |-> p, is_compressed |-> FALSE, children |-> <<>>]

\* the lifecycle of the local document at p, a child of an expanded archive:
\* there is nothing to fetch, its bytes are classified and, when they are an
\* archive, expanded as those of a downloaded file are
LocalGetFile(p) ==
    /\ p \in ChildPaths
    /\ p \notin DOMAIN locals
    /\ \E r \in {Classify(NewLocalDoc(p), p, uncompress,
                          (p :> FileUnder(localFs, extracted, p)) @@ localFs,
                          extracted)} :
         /\ locals' = (p :> [is_compressed |-> r.doc.is_compressed,
                             children |-> r.doc.children,
                             outcome |-> r.outcome]) @@ locals
         /\ extracted' = r.dirs
    /\ UNCHANGED <<path, recursive, uncompress, cfg, fsMade, lsOut, findOut,
                   lsCalls, initRes, runs, docs, remote, localFs, mkdirs, hist,
                   submitted>>

----------------------------------------------------------------------------
(* Specifications.                                                         *)

\* the state every specification starts the lifecycle part in
Fresh ==
    /\ cfg = NewConfig
    /\ fsMade = FALSE
    /\ lsCalls = 0
    /\ initRes = "none"
    /\ runs = 0
    /\ docs = <<>>
    /\ localFs = <<>>
    /\ extracted = {}
    /\ mkdirs = {}
    /\ hist = <<>>
    /\ submitted = NoCall
    /\ locals = <<>>

\* the texts of up to n characters an input address continues with
Texts(n) == UNION {SeqsOfLen(Alphabet, k) : k \in 0..n}

\* the first characters of an input address: two supported protocols, an
\* unsupported one
Prefixes == { <<"s", "3">>, DROPBOX, <<"f", "t", "p">> }

\* the input addresses: with and without a "://" after the prefix
Addresses(n) ==
    {pre \o t : pre \in Prefixes, t \in Texts(n)}
        \cup {pre \o SEP \o t : pre \in Prefixes, t \in Texts(n)}

\* a listing of one non-empty object
OneFile == <<[name |-> <<"b", "/", "x">>, size |-> 1]>>

\* The address parser on every input address, followed by the connector's
\* construction and listing over a fixed backend.
InitParse ==
    /\ path \in Addresses(MaxLen)
    /\ recursive = FALSE
    /\ uncompress = FALSE
    /\ lsOut = OneFile
    /\ findOut = OneFile
    /\ remote = [k \in Keys |-> Plain]
    /\ Fresh

NextParse == PostInit \/ ConnectorInit \/ Initialize \/ GetIngestDocs

SpecParse == InitParse /\ [][NextParse]_vars

\* The corpus lister on every pair of backend listings, in both modes.
InitList ==
    /\ path = S3B
    /\ recursive \in BOOLEAN
    /\ uncompress = FALSE
    /\ lsOut \in Listings
    /\ findOut \in Listings
    /\ remote = [k \in Keys |-> Plain]
    /\ Fresh

NextList == PostInit \/ ConnectorInit \/ Initialize \/ GetIngestDocs

SpecList == InitList /\ [][NextList]_vars

\* the order fs.find lists the keys in: sorted by name
KeyOrder == << <<"b", "/", "b", "/", "x">>, <<"b", "/", "x">>, <<"b", "/", "y">> >>

\* position of key k in KeyOrder
KeyRank(k) == CHOOSE n \in 1..Len(KeyOrder) : KeyOrder[n] = k

\* the listings of the lifecycle specifications: up to n non-empty objects,
\* in the backend's order
FileListings(n) ==
    {l \in Listings :
        /\ l # <<>>
        /\ Len(l) <= n
        /\ \A i \in 1..Len(l) : l[i].size > 0
        /\ \A i, j \in 1..Len(l) : i < j => KeyRank(l[i].name) < KeyRank(l[j].name)}

\* a run over s3://b that lists up to n objects, over every classification
\* of the listed objects
InitRun(n) ==
    /\ path = S3B
    /\ recursive = TRUE
    /\ uncompress \in BOOLEAN
    /\ lsOut \in FileListings(n)
    /\ findOut = lsOut
    /\ remote \in {r \in [Keys -> Content] :
                     \A k \in Keys :
                        (\A i \in 1..Len(lsOut) : lsOut[i].name # k) => r[k] = Plain}
    /\ Fresh

\* The whole run over s3://b: construction, listing, and the lifecycle of
\* every listed document, with sibling documents.
Init == InitRun(MaxDocs)

Next ==
    \/ PostInit
    \/ ConnectorInit
    \/ Initialize
    \/ GetIngestDocs
    \/ \E i \in DOMAIN docs : GetFile(i)
    \/ \E i \in DOMAIN docs : ProcessFile(i)
    \/ \E i \in DOMAIN docs : WriteResult(i)

Spec == Init /\ [][Next]_vars

\* The run over a single listed object: the lifecycle of one document, over
\* repeated runs and repeated get_file invocations.
InitDoc == InitRun(MaxSolo)

SpecDoc == InitDoc /\ [][Next]_vars

\* the listing of the round trip: a plain object and an archive
TwoFiles ==
    << [name |-> <<"b", "/", "x">>, size |-> 1],
       [name |-> <<"b", "/", "y">>, size |-> 1] >>

\* the bytes of a well-formed archive of the given kind, nested d deep: it
\* holds a plain file c and, while d > 1, an archive n nested d - 1 deep
RECURSIVE Nest(_, _)
Nest(d, kind) ==
    [zip |-> IF kind = "zip" THEN "ok" ELSE "no",
     tar |-> IF kind = "tar" THEN "ok" ELSE "no",
     holds |-> IF d > 1
               THEN << [name |-> "c", bytes |-> Plain],
                       [name |-> "n", bytes |-> Nest(d - 1, kind)] >>
               ELSE << [name |-> "c", bytes |-> Plain] >>]

\* The round trip: s3://b holds the plain object b/x and the archive b/y,
\* nested up to MaxDepth deep; the lifecycle of the two documents and of
\* every local document an expansion creates.
InitTree ==
    /\ path = S3B
    /\ recursive = TRUE
    /\ uncompress \in BOOLEAN
    /\ lsOut = TwoFiles
    /\ findOut = lsOut
    /\ remote \in {[k \in Keys |-> IF k = <<"b", "/", "y">> THEN Nest(d, kind) ELSE Plain] :
                      d \in 1..MaxDepth, kind \in {"zip", "tar"}}
    /\ Fresh

NextTree ==
    \/ PostInit
    \/ ConnectorInit
    \/ Initialize
    \/ GetIngestDocs
    \/ \E i \in DOMAIN docs : GetFile(i)
    \/ \E i \in DOMAIN docs : ProcessFile(i)
    \/ \E i \in DOMAIN docs : WriteResult(i)
    \/ \E p \in ChildPaths : LocalGetFile(p)

SpecTree == InitTree /\ [][NextTree]_vars

----------------------------------------------------------------------------
(* The claims.                                                             *)

\* the address has a "://"
HasSep(p) == Find(p, SEP) # 0

\* the text before the first "://" of an address that has one
BeforeFirst(p) == SubSeq(p, 1, Find(p, SEP) - 1)

\* the text after the first "://" of an address that has one
AfterFirst(p) == SubSeq(p, Find(p, SEP) + Len(SEP), Len(p))

\* the ValueErrors the specification calls InvalidAddress
InvalidAddress == {"unpack", "path"}

\* the ValueError the specification calls UnsupportedBackend
UnsupportedBackend == "protocol"

\* t has no whitespace
NoSpace(t) == \A i \in 1..Len(t) : t[i] \notin WhiteSpace

\* t without its trailing slashes
RECURSIVE RStripSlashes(_)
RStripSlashes(t) ==
    IF t # <<>> /\ t[Len(t)] = "/" THEN RStripSlashes(SubSeq(t, 1, Len(t) - 1)) ELSE t

\* t is the name of a root container: not empty, and without "/", ":" and
\* whitespace
RootName(t) ==
    t # <<>> /\ \A i \in 1..Len(t) : t[i] \notin ({"/", ":"} \cup WhiteSpace)

\* the remainder is of the rootless shape: one whitespace character, then "/"
RootlessShape(r) == Len(r) = 2 /\ r[1] \in WhiteSpace /\ r[2] = "/"

\* the remainder is of the root-only shape: a root, then only slashes
RootOnlyShape(r) == RootName(RStripSlashes(r))

\* the remainder is of the root-plus-object shape: a root, "/", an object path
RootObjectShape(r) ==
    LET k == RunLen(r, {"/"})
    IN  /\ k < Len(r)
        /\ RootName(SubSeq(r, 1, k))
        /\ NoSpace(r)
        /\ ~RootOnlyShape(r)

\* C5: for every address with a supported backend whose remainder has one of
\* the three shapes, the parser succeeds with the shape's root and object:
\* rootless (dropbox, one whitespace character and "/") gives root " " and an
\* empty object; root-only gives the remainder without its trailing slashes
\* and an empty object; root-plus-object gives the text before the first "/"
\* and the entire text after it.
C5_ShapesRecovered ==
    (cfg.state # "new" /\ HasSep(path) /\ BeforeFirst(path) \in SUPPORTED_REMOTE_FSSPEC_PROTOCOLS)
    => LET r == AfterFirst(path)
           k == RunLen(r, {"/"})
       IN  /\ (BeforeFirst(path) = DROPBOX /\ RootlessShape(r))
                => /\ cfg.state = "ok"
                   /\ cfg.dir_path = <<" ">>
                   /\ cfg.file_path = <<>>
           /\ RootOnlyShape(r)
                => /\ cfg.state = "ok"
                   /\ cfg.dir_path = RStripSlashes(r)
                   /\ cfg.file_path = <<>>
           /\ RootObjectShape(r)
                => /\ cfg.state = "ok"
                   /\ cfg.dir_path = SubSeq(r, 1, k)
                   /\ cfg.file_path = SubSeq(r, k + 2, Len(r))

\* C6: the parser answers root " ", object "" only for a dropbox address
\* whose remainder is exactly one whitespace character followed by "/".
C6_RootlessExact ==
    (cfg.state = "ok" /\ cfg.dir_path = <<" ">> /\ cfg.file_path = <<>>)
    => (BeforeFirst(path) = DROPBOX /\ RootlessShape(AfterFirst(path)))

\* C7: an address whose backend identifier (the text before its first "://")
\* is not supported fails with UnsupportedBackend, and no remote filesystem
\* is constructed and no backend call made.
C7_UnsupportedBackend ==
    (cfg.state # "new" /\ HasSep(path)
        /\ BeforeFirst(path) \notin SUPPORTED_REMOTE_FSSPEC_PROTOCOLS)
    => (cfg.err = UnsupportedBackend /\ ~fsMade /\ lsCalls = 0)

\* C8: an address without "://" fails with InvalidAddress; an address whose
\* remainder is a root and an object path is split at the first "://", also
\* when the object path holds a further "://": the backend is the text
\* before the first, the remainder everything after it, and the address is
\* not rejected for the further one.
C8_SplitsOnFirst ==
    cfg.state # "new"
    => /\ ~HasSep(path) => cfg.err \in InvalidAddress
       /\ (HasSep(path) /\ RootObjectShape(AfterFirst(path)))
            => /\ cfg.err # "unpack"
               /\ cfg.protocol = BeforeFirst(path)
               /\ cfg.path_without_protocol = AfterFirst(path)

\* the listing _list_files reads in the configured mode
UsedListing == IF recursive THEN findOut ELSE lsOut

\* C3: when the listing of the configured mode is non-empty and holds only
\* zero-size entries, initialization fails and the run does not proceed.
C3_EmptyCorpus ==
    (UsedListing # <<>> /\ \A i \in 1..Len(UsedListing) : UsedListing[i].size = 0)
    => (initRes # "ok" /\ runs = 0)

\* the positions of the listing whose entry reports a size above zero
Sized(l) == {i \in 1..Len(l) : l[i].size > 0}

\* C4: in both modes, the documents of a run are the entries of the mode's
\* listing with a size above zero, one fresh document each, in the listing's
\* order: the n-th document is the n-th such entry.
C4_ListingFiltered ==
    runs >= 1
    => /\ Len(docs) = Cardinality(Sized(UsedListing))
       /\ \A i \in Sized(UsedListing) :
            LET n == Cardinality({j \in Sized(UsedListing) : j <= i})
            IN  docs[n] = [remote_file_path |-> UsedListing[i].name,
                           is_compressed |-> FALSE, children |-> <<>>]

\* C4's case: a run over a listing that has a zero-size entry between two
\* entries that are kept
C4_Witness ==
    /\ runs >= 1
    /\ Len(UsedListing) = 3
    /\ UsedListing[1].size > 0
    /\ UsedListing[2].size = 0
    /\ UsedListing[3].size > 0
    /\ Len(docs) = 2

\* C1: a get_file that fetched and returned normally is followed, on the
\* same document, by a get_file that is skipped and calls fs.get not at all.
C1_FetchIdempotent ==
    \A i \in DOMAIN docs :
        \A j \in 1..(Len(hist[i]) - 1) :
            (hist[i][j].outcome = "ok" /\ hist[i][j].fsget)
            => (hist[i][j + 1].outcome = "skipped" /\ ~hist[i][j + 1].fsget)

\* C1's case: a document whose get_file ran twice, the first call fetching
C1_Witness ==
    \E i \in DOMAIN docs :
        /\ Len(hist[i]) = 2
        /\ hist[i][1].outcome = "ok"
        /\ hist[i][1].fsget
        /\ hist[i][2].outcome = "skipped"

\* no other listed key is cached at the local path of key k
CachedAlone(k) ==
    \A i \in 1..Len(UsedListing) :
        UsedListing[i].name # k
        => TmpDownloadFile(cfg.dir_path, UsedListing[i].name)
              # TmpDownloadFile(cfg.dir_path, k)

\* C2: what process_file and write_result hand downstream is never a file
\* whose bytes are a zip or tar archive (stated for the documents whose cache
\* path no other listed key shares).
C2_OnlyPlainSubmitted ==
    (submitted.op # "none" /\ CachedAlone(submitted.key))
    => (~is_zipfile(submitted.bytes) /\ ~is_tarfile(submitted.bytes))

\* the last get_file invocation on document i fetched the file
LastFetched(i) ==
    /\ hist[i] # <<>>
    /\ hist[i][Len(hist[i])].fsget
    /\ hist[i][Len(hist[i])].outcome # "fetch_error"

\* C9: with expansion enabled, a get_file that fetched bytes classified as a
\* tar archive that cannot be read returns normally and leaves the document
\* marked as an archive, without children, in the run's document list.
C9_CorruptTarRecovered ==
    \A i \in DOMAIN docs :
        LET b == FileAt(localFs, TmpDownloadFile(cfg.dir_path, docs[i].remote_file_path))
        IN  (uncompress /\ LastFetched(i) /\ b.tar = "bad")
            => /\ hist[i][Len(hist[i])].outcome = "ok"
               /\ docs[i].is_compressed
               /\ docs[i].children = <<>>
               /\ Len(docs) = Len(list_files(recursive, lsOut, findOut))

\* this step is a get_file on document i that ends in process_zip's error
ZipErrorStep(i) ==
    /\ i \in DOMAIN hist'
    /\ Len(hist'[i]) = Len(hist[i]) + 1
    /\ hist'[i][Len(hist'[i])].outcome = "zip_error"

\* C10: a get_file that ends in a zip extraction error adds no children to
\* its document and changes nothing of the sibling documents: their fields
\* and the files at their cache paths stay as they were.
C10_CorruptZipConfined ==
    [][\A i \in DOMAIN docs :
        ZipErrorStep(i)
        => /\ docs'[i].children = docs[i].children
           /\ \A j \in DOMAIN docs \ {i} :
                /\ docs'[j] = docs[j]
                /\ FileAt(localFs', TmpDownloadFile(cfg.dir_path, docs[j].remote_file_path))
                     = FileAt(localFs, TmpDownloadFile(cfg.dir_path, docs[j].remote_file_path))
      ]_vars

\* C14: in both listing modes initialize reads the shallow listing (fs.ls)
\* and fails if and only if that listing has no entries, whatever fs.find
\* would answer; when it fails no document has been created or fetched.
C14_InitModeIndependent ==
    initRes # "none"
    => /\ initRes = "error" <=> lsOut = <<>>
       /\ initRes = "error"
            => (runs = 0 /\ docs = <<>> /\ localFs = <<>> /\ lsCalls = 1)

\* C14's case: in recursive mode initialize failed on an empty shallow
\* listing although the recursive listing has entries
C14_Witness ==
    /\ recursive
    /\ initRes = "error"
    /\ lsOut = <<>>
    /\ findOut # <<>>

\* C13: any two documents of one run with distinct remote keys have distinct
\* local cache paths and distinct output paths, so that no two get_file
\* calls write the same local file.
C13_CachePathsDistinct ==
    \A i, j \in DOMAIN docs :
        docs[i].remote_file_path # docs[j].remote_file_path
        => /\ TmpDownloadFile(cfg.dir_path, docs[i].remote_file_path)
                # TmpDownloadFile(cfg.dir_path, docs[j].remote_file_path)
           /\ output_filename(cfg.dir_path, docs[i].remote_file_path)
                # output_filename(cfg.dir_path, docs[j].remote_file_path)

\* C16: the children of a document come from at most one archive expansion:
\* they all lie in one extraction directory (a file classified as both zip
\* and tar is expanded by one of process_zip / process_tar only), and no
\* child appears twice.
C16_SingleExpansion ==
    \A i \in DOMAIN docs :
        \A a, b \in 1..Len(docs[i].children) :
            /\ Parent(docs[i].children[a].local_path)
                 = Parent(docs[i].children[b].local_path)
            /\ a # b => docs[i].children[a] # docs[i].children[b]

\* this step is a get_file on document i that is skipped
SkipStep(i) ==
    /\ i \in DOMAIN hist'
    /\ Len(hist'[i]) = Len(hist[i]) + 1
    /\ hist'[i][Len(hist'[i])].outcome = "skipped"

\* C17: a get_file that is skipped because the file at the cache path exists
\* calls neither fs.get nor the listing, creates no directory, classifies and
\* extracts nothing, and leaves is_compressed and children of the document
\* (and every other document and local file) as they were.
C17_SkipChangesNothing ==
    [][\A i \in DOMAIN docs :
        SkipStep(i)
        => /\ ~hist'[i][Len(hist'[i])].fsget
           /\ lsCalls' = lsCalls
           /\ mkdirs' = mkdirs
           /\ extracted' = extracted
           /\ localFs' = localFs
           /\ docs' = docs
      ]_vars

\* C17's case: a second get_file on a document that its first get_file
\* marked as an archive and gave children was skipped
C17_Witness ==
    \E i \in DOMAIN docs :
        /\ Len(hist[i]) = 2
        /\ hist[i][2].outcome = "skipped"
        /\ docs[i].is_compressed
        /\ docs[i].children # <<>>

\* some get_file invocation on document i fetched and returned normally
EverFetched(i) ==
    \E k \in 1..Len(hist[i]) : hist[i][k].outcome = "ok" /\ hist[i][k].fsget

\* C12: a document has children only if it is marked is_compressed,
\* expansion is enabled, and an expansion of its file completed (one of its
\* get_file calls returned normally, and every child lies in an extraction
\* directory of its cache path that holds extracted entries). So children
\* is empty before any get_file, after fetches that all failed, for
\* documents not marked as archives, and when expansion is disabled.
C12_ChildrenOnlyExpanded ==
    \A i \in DOMAIN docs :
        LET lpath == TmpDownloadFile(cfg.dir_path, docs[i].remote_file_path)
            ch == docs[i].children
        IN  /\ ch # <<>>
                => /\ docs[i].is_compressed
                   /\ uncompress
                   /\ EverFetched(i)
                   /\ \A c \in 1..Len(ch) :
                        /\ Parent(ch[c].local_path) \in extracted
                        /\ Parent(ch[c].local_path)
                             \in {ExtractDir(lpath, "zip"), ExtractDir(lpath, "tar")}
            /\ hist[i] = <<>> => ch = <<>>
            /\ (\A k \in 1..Len(hist[i]) : hist[i][k].outcome = "fetch_error")
                => ch = <<>>
            /\ ~docs[i].is_compressed => ch = <<>>
            /\ ~uncompress => ch = <<>>

\* C12's case: with expansion enabled, the one get_file of a document
\* expanded its archive and gave it children
C12_Witness ==
    \E i \in DOMAIN docs :
        /\ uncompress
        /\ Len(hist[i]) = 1
        /\ hist[i][1].outcome = "ok"
        /\ docs[i].children # <<>>

\* this step is a get_file on document i whose fs.get wrote the file
FetchStep(i) ==
    /\ i \in DOMAIN hist'
    /\ Len(hist'[i]) = Len(hist[i]) + 1
    /\ hist'[i][Len(hist'[i])].fsget
    /\ hist'[i][Len(hist'[i])].outcome \in {"ok", "zip_error"}

\* C15: no step removes or changes a local file, an extraction directory or
\* a created directory, and on every exit of a get_file whose fs.get wrote
\* the file (normal return, recovered tar error, zip extraction error) the
\* file is at the document's cache path.
C15_NothingDeleted ==
    [][/\ \A p \in DOMAIN localFs :
            p \in DOMAIN localFs' /\ localFs'[p] = localFs[p]
       /\ extracted \subseteq extracted'
       /\ mkdirs \subseteq mkdirs'
       /\ \A i \in DOMAIN docs :
            FetchStep(i)
            => FileAt(localFs', TmpDownloadFile(cfg.dir_path, docs[i].remote_file_path))
                 = remote[docs[i].remote_file_path]
      ]_vars

\* C15's case: a get_file ended in process_zip's error, and at a later
\* get_file on the same document the file was still there
C15_Witness ==
    \E i \in DOMAIN docs :
        /\ Len(hist[i]) = 2
        /\ hist[i][1].outcome = "zip_error"
        /\ hist[i][2].outcome = "skipped"
        /\ FileAt(localFs, TmpDownloadFile(cfg.dir_path, docs[i].remote_file_path))
             # Absent

\* the lifecycle of every local document below the children ch has run and
\* returned normally
RECURSIVE LocalsDone(_)
LocalsDone(ch) ==
    \A c \in DOMAIN ch :
        /\ ch[c].local_path \in DOMAIN locals
        /\ locals[ch[c].local_path].outcome = "ok"
        /\ LocalsDone(locals[ch[c].local_path].children)

\* the corpus below the local document at p: its name, whether it is marked
\* as an archive, and the corpus below each of its children, in order
RECURSIVE LocalTree(_)
LocalTree(p) ==
    [name |-> p[Len(p)],
     archive |-> locals[p].is_compressed,
     kids |-> [c \in DOMAIN locals[p].children |->
                  LocalTree(locals[p].children[c].local_path)]]

\* the corpus below document i
DocTree(i) ==
    [name |-> docs[i].remote_file_path[Len(docs[i].remote_file_path)],
     archive |-> docs[i].is_compressed,
     kids |-> [c \in DOMAIN docs[i].children |->
                  LocalTree(docs[i].children[c].local_path)]]

\* what the round trip is to give for an object of the given name and
\* bytes: plain bytes a plain document, an archive a marked document with
\* one child per entry, each expanded in turn
RECURSIVE Expanded(_, _)
Expanded(name, b) ==
    [name |-> name,
     archive |-> b.zip # "no" \/ b.tar # "no",
     kids |-> IF b.zip # "no" \/ b.tar # "no"
              THEN [e \in DOMAIN b.holds |->
                       Expanded(b.holds[e].name, b.holds[e].bytes)]
              ELSE <<>>]

\* the lifecycle of every document of the run and of every local document
\* below it has fetched (or, for a local document, found) its file,
\* classified it and returned normally
RoundTripDone ==
    /\ docs # <<>>
    /\ \A i \in DOMAIN docs : EverFetched(i) /\ LocalsDone(docs[i].children)

====
